---- MODULE Spec2Model ----
(***************************************************************************)
(* A model of the bracket markup parser of tts_lib/markup_parser.py        *)
(* (BracketMarkupProcessor).  Strings are sequences of one-character       *)
(* strings; floats are modelled by the integers they denote (the inputs    *)
(* drawn below only contain integer-valued numerals, on which binary       *)
(* floating point addition and multiplication are exact).                  *)
(***************************************************************************)
EXTENDS Integers, Sequences, FiniteSets, TLC

(***************************************************************************)
(* Bounds of the model.                                                    *)
(***************************************************************************)
\* number of lexemes (tags, text runs, stray brackets) in a markup text
MaxLexemes == 5
\* number of lexemes in the inputs of the attribute-spec specification
MaxAttrLexemes == 4
\* number of lexemes in the inputs of the configuration specification
MaxCfgLexemes == 3
MaxLoadLexemes == 2
MaxPairLexemes == 2
MaxCliLexemes == 3
MaxSpellPauseOption == 2
MaxEngineText == 3
MaxPauseLexemes == 3
MaxPipeLexemes == 3

(***************************************************************************)
(* Characters and strings.                                                 *)
(***************************************************************************)
Range(s) == {s[k] : k \in 1..Len(s)}

\* string.punctuation (without the backquote, which a TLA+ string cannot hold)
PUNCTUATION ==
    {"!", "\"", "#", "$", "%", "&", "'", "(", ")", "*", "+", ",", "-", ".",
     "/", ":", ";", "<", "=", ">", "?", "@", "[", "\\", "]", "^", "_",
     "{", "|", "}", "~"}

\* the characters matched by \s and removed by str.strip()
WHITESPACE == {" ", "\t", "\n", "\r", "\f"}

DIGITS == {"0", "1", "2", "3", "4", "5", "6", "7", "8", "9"}

LOWERCASE ==
    <<"a", "b", "c", "d", "e", "f", "g", "h", "i", "j", "k", "l", "m",
      "n", "o", "p", "q", "r", "s", "t", "u", "v", "w", "x", "y", "z">>

UPPERCASE ==
    <<"A", "B", "C", "D", "E", "F", "G", "H", "I", "J", "K", "L", "M",
      "N", "O", "P", "Q", "R", "S", "T", "U", "V", "W", "X", "Y", "Z">>

\* str.upper() on one character
Upper(c) ==
    IF \E k \in 1..26 : LOWERCASE[k] = c
    THEN UPPERCASE[CHOOSE k \in 1..26 : LOWERCASE[k] = c]
    ELSE c

\* str.lower() on one character
LowerChar(c) ==
    IF \E k \in 1..26 : UPPERCASE[k] = c
    THEN LOWERCASE[CHOOSE k \in 1..26 : UPPERCASE[k] = c]
    ELSE c

\* str.lower()
Lower(s) == [k \in 1..Len(s) |-> LowerChar(s[k])]

\* str.strip(): drop leading and trailing whitespace
Strip(s) ==
    LET keep == {k \in 1..Len(s) : s[k] \notin WHITESPACE}
    IN  IF keep = {} THEN <<>>
        ELSE LET lo == CHOOSE k \in keep : \A m \in keep : k <= m
                 hi == CHOOSE k \in keep : \A m \in keep : m <= k
             IN  SubSeq(s, lo, hi)

\* re.sub(r'\s+', ' ', s): every run of whitespace becomes one space
RECURSIVE CollapseWhitespace(_)
CollapseWhitespace(s) ==
    IF s = <<>> THEN <<>>
    ELSE IF Head(s) \in WHITESPACE
         THEN IF Len(s) > 1 /\ s[2] \in WHITESPACE
              THEN CollapseWhitespace(Tail(s))
              ELSE <<" ">> \o CollapseWhitespace(Tail(s))
         ELSE <<Head(s)>> \o CollapseWhitespace(Tail(s))

\* a normalisation that trims and leaves inner whitespace runs alone
NormalizeText_StripOnly(s) == Strip(s)

\* re.sub(r'\s+', ' ', token).strip()
NormalizeText(s) == Strip(CollapseWhitespace(s))

\* str.startswith
StartsWith(s, p) == Len(s) >= Len(p) /\ SubSeq(s, 1, Len(p)) = p

\* " ".join(list of strings)
RECURSIVE JoinWithSpace(_)
JoinWithSpace(parts) ==
    IF parts = <<>> THEN <<>>
    ELSE IF Len(parts) = 1 THEN parts[1]
    ELSE parts[1] \o <<" ">> \o JoinWithSpace(Tail(parts))

\* str.split(sep) for a one-character separator
RECURSIVE Split(_, _)
Split(s, sep) ==
    IF \A k \in 1..Len(s) : s[k] # sep THEN <<s>>
    ELSE LET p == CHOOSE k \in 1..Len(s) :
                      s[k] = sep /\ \A m \in 1..(k - 1) : s[m] # sep
         IN  <<SubSeq(s, 1, p - 1)>> \o Split(SubSeq(s, p + 1, Len(s)), sep)

\* the value of a string of decimal digits
RECURSIVE DigitsValue(_)
DigitsValue(s) ==
    IF s = <<>> THEN 0
    ELSE LET d == CHOOSE n \in 0..9 :
                      <<"0", "1", "2", "3", "4", "5", "6", "7", "8", "9">>[n + 1]
                          = s[Len(s)]
         IN  10 * DigitsValue(SubSeq(s, 1, Len(s) - 1)) + d

\* float(s): [ok |-> FALSE] stands for ValueError.  Accepted are an optional
\* sign, digits and at most one point with at least one digit; the value is
\* the integer part (the inputs have no nonzero fractional digits).
ParseFloat(str) ==
    LET s      == Strip(str)
        signed == s # <<>> /\ s[1] \in {"-", "+"}
        body   == IF signed THEN Tail(s) ELSE s
        points == {k \in 1..Len(body) : body[k] = "."}
        wellformed ==
            /\ body # <<>>
            /\ \A k \in 1..Len(body) : body[k] \in DIGITS \cup {"."}
            /\ Cardinality(points) <= 1
            /\ \E k \in 1..Len(body) : body[k] \in DIGITS
        whole  == IF points = {} THEN body
                  ELSE SubSeq(body, 1, (CHOOSE k \in points : TRUE) - 1)
        mag    == DigitsValue(whole)
    IN  IF wellformed
        THEN [ok |-> TRUE, val |-> IF signed /\ s[1] = "-" THEN 0 - mag ELSE mag]
        ELSE [ok |-> FALSE, val |-> 0]

(***************************************************************************)
(* The tokenizer: token_pattern.findall(markup_text) with                  *)
(*   (\[pause:[0-9.]+\]|\[[^\]]+\]|\[/\]|[^[\]]+)                          *)
(***************************************************************************)
PAUSE_PREFIX == <<"[", "p", "a", "u", "s", "e", ":">>

\* end of a match of \[pause:[0-9.]+\] starting at p, or 0
MatchPauseTag(s, p) ==
    IF StartsWith(SubSeq(s, p, Len(s)), PAUSE_PREFIX)
    THEN LET from == p + 7
             stop == IF \E k \in from..Len(s) : s[k] \notin DIGITS \cup {"."}
                     THEN CHOOSE k \in from..Len(s) :
                              /\ s[k] \notin DIGITS \cup {"."}
                              /\ \A m \in from..(k - 1) : s[m] \in DIGITS \cup {"."}
                     ELSE 0
         IN  IF stop > from /\ s[stop] = "]" THEN stop ELSE 0
    ELSE 0

\* end of a match of \[[^\]]+\] starting at p, or 0
MatchAnyTag(s, p) ==
    IF s[p] = "[" /\ \E k \in (p + 1)..Len(s) : s[k] = "]"
    THEN LET close == CHOOSE k \in (p + 1)..Len(s) :
                          s[k] = "]" /\ \A m \in (p + 1)..(k - 1) : s[m] # "]"
         IN  IF close >= p + 2 THEN close ELSE 0
    ELSE 0

\* end of a match of \[/\] starting at p, or 0
MatchCloseTag(s, p) ==
    IF StartsWith(SubSeq(s, p, Len(s)), <<"[", "/", "]">>) THEN p + 2 ELSE 0

\* end of a match of [^[\]]+ starting at p, or 0
MatchText(s, p) ==
    IF s[p] \in {"[", "]"} THEN 0
    ELSE IF \E k \in p..Len(s) : s[k] \in {"[", "]"}
         THEN (CHOOSE k \in p..Len(s) :
                   s[k] \in {"[", "]"} /\ \A m \in p..(k - 1) : s[m] \notin {"[", "]"}) - 1
         ELSE Len(s)

\* the first alternative that matches at p decides; 0 when none does
MatchAt(s, p) ==
    IF MatchPauseTag(s, p) # 0 THEN MatchPauseTag(s, p)
    ELSE IF MatchAnyTag(s, p) # 0 THEN MatchAnyTag(s, p)
    ELSE IF MatchCloseTag(s, p) # 0 THEN MatchCloseTag(s, p)
    ELSE MatchText(s, p)

RECURSIVE TokenizeFrom(_, _)
TokenizeFrom(s, p) ==
    IF p > Len(s) THEN <<>>
    ELSE LET e == MatchAt(s, p)
         IN  IF e = 0 THEN TokenizeFrom(s, p + 1)
             ELSE <<SubSeq(s, p, e)>> \o TokenizeFrom(s, e + 1)

Tokenize(s) == TokenizeFrom(s, 1)

(***************************************************************************)
(* Data structures.                                                        *)
(***************************************************************************)
\* SpeechSegment(text, pause_before, pause_after, rate, pitch, volume);
\* spell keeps its default, the parser never sets it
SpeechSegment(text, pause_before, pause_after, rate, pitch, volume) ==
    [text |-> text, pause_before |-> pause_before, pause_after |-> pause_after,
     rate |-> rate, pitch |-> pitch, volume |-> volume, spell |-> FALSE]

\* SpeechSegment(text=""): every other field at its default
DefaultSegment == SpeechSegment(<<>>, 0, 0, 1, 1, 1)

\* _get_default_attrs()
DefaultAttrs ==
    [rate |-> 1, pitch |-> 1, volume |-> 1,
     pause_before |-> 0, pause_after |-> 0, spell |-> FALSE]

\* the keys of the attribute dictionary, as they are written in a tag
KEY_TEXT ==
    [rate         |-> <<"r", "a", "t", "e">>,
     pitch        |-> <<"p", "i", "t", "c", "h">>,
     volume       |-> <<"v", "o", "l", "u", "m", "e">>,
     pause_before |-> <<"p", "a", "u", "s", "e", "_", "b", "e", "f", "o", "r", "e">>,
     pause_after  |-> <<"p", "a", "u", "s", "e", "_", "a", "f", "t", "e", "r">>,
     spell        |-> <<"s", "p", "e", "l", "l">>]

_PHONETIC_SPELLING_MAP ==
    ("A" :> <<"A", "A", "Y">>) @@ ("B" :> <<"B", "e", "e">>) @@
    ("C" :> <<"S", "e", "e">>) @@ ("D" :> <<"D", "e", "e">>) @@
    ("E" :> <<"E", "e", "e">>) @@ ("F" :> <<"E", "f", "f">>) @@
    ("G" :> <<"G", "e", "e">>) @@ ("H" :> <<"A", "i", "t", "c", "h">>) @@
    ("I" :> <<"E", "y", "e">>) @@ ("J" :> <<"J", "a", "y">>) @@
    ("K" :> <<"K", "a", "y">>) @@ ("L" :> <<"E", "l", "l">>) @@
    ("M" :> <<"E", "m">>) @@ ("N" :> <<"E", "n">>) @@
    ("O" :> <<"O", "h">>) @@ ("P" :> <<"P", "e", "e">>) @@
    ("Q" :> <<"C", "u", "e">>) @@ ("R" :> <<"A", "r">>) @@
    ("S" :> <<"E", "s", "s">>) @@ ("T" :> <<"T", "e", "e">>) @@
    ("U" :> <<"Y", "o", "u">>) @@ ("V" :> <<"V", "e", "e">>) @@
    ("W" :> <<"D", "o", "u", "b", "l", "e", "-", "y", "o", "u">>) @@
    ("X" :> <<"E", "x">>) @@ ("Y" :> <<"W", "h", "y">>) @@
    ("Z" :> <<"Z", "e", "e">>) @@
    ("0" :> <<"z", "e", "r", "o">>) @@ ("1" :> <<"o", "n", "e">>) @@
    ("2" :> <<"t", "w", "o">>) @@ ("3" :> <<"t", "h", "r", "e", "e">>) @@
    ("4" :> <<"f", "o", "u", "r">>) @@ ("5" :> <<"f", "i", "v", "e">>) @@
    ("6" :> <<"s", "i", "x">>) @@ ("7" :> <<"s", "e", "v", "e", "n">>) @@
    ("8" :> <<"e", "i", "g", "h", "t">>) @@ ("9" :> <<"n", "i", "n", "e">>)

(***************************************************************************)
(* The state of one parse_markup call on one processor.                    *)
(***************************************************************************)
VARIABLES
    emotion_presets,        \* self.emotion_presets: name -> list of (key, value)
    modifier_presets,       \* self.modifier_presets
    spell_pause_duration,   \* self.spell_pause_duration
    markup_text,            \* the argument of parse_markup
    tokens,                 \* token_pattern.findall(markup_text)
    i,                      \* index of the next token of the for loop
    segments,               \* the output list
    attribute_stack,        \* the scope stack, root first
    current_text_buffer,    \* the buffered text runs
    text_segment_created,   \* the flag of the same name
    pc,                     \* "construct", "loop", "done" (returned) or "raised"
    result,                 \* the returned list, <<>> before the return
    config_file,            \* what lies at config_path
    other,                  \* a second parse_markup call on the same processor
    args,                   \* the parsed command line of tts_generator.py
    segment,                \* the argument of a synthesize_to_memory call
    tts_calls,              \* the calls of self.tts.tts: [text, raised]
    synthesis_result,       \* what the last synthesize_to_memory call gave
    audio_segments,         \* the list of the same name of the pipeline
    current_time,           \* the running time of the pipeline
    seg_index,              \* index of the next segment of the pipeline loop
    timings                 \* start_time, end_time, duration of each segment

\* the state of the command line, the engine and the pipeline
Downstream ==
    <<args, segment, tts_calls, synthesis_result, audio_segments,
      current_time, seg_index, timings>>

\* the state outside the first parse_markup call and the processor
Elsewhere == <<other, Downstream>>

vars ==
    <<emotion_presets, modifier_presets, spell_pause_duration, markup_text,
      tokens, i, segments, attribute_stack, current_text_buffer,
      text_segment_created, pc, result, config_file, Elsewhere>>

\* no second call has been made
IdleCall ==
    [markup_text |-> <<>>, tokens |-> <<>>, i |-> 1,
     locals |-> [segments |-> <<>>, attribute_stack |-> <<>>,
                 current_text_buffer |-> <<>>, text_segment_created |-> FALSE,
                 raised |-> FALSE],
     pc |-> "idle", result |-> <<>>]

\* the defaults of the command line options
DefaultArgs == [spell_pause_duration |-> 0]

\* no synthesis has been asked for and no pipeline loop has started
NoSynthesis ==
    /\ tts_calls = <<>>
    /\ synthesis_result = "pending"
    /\ audio_segments = <<>>
    /\ current_time = 0
    /\ seg_index = 1
    /\ timings = <<>>

\* nothing but the first call is under way
Quiet ==
    /\ other = IdleCall
    /\ args = DefaultArgs
    /\ segment = DefaultSegment
    /\ NoSynthesis

Top(stack) == stack[Len(stack)]

(***************************************************************************)
(* _load_presets.  A configuration file is [kind, type, members]: kind     *)
(* says what open and json.load meet ("missing", "unreadable",             *)
(* "invalid_json" or "json"), type is the type of the JSON value and       *)
(* members lists the members of a JSON object as [name, table].            *)
(***************************************************************************)
\* no presets at all
EmptyPresets == <<>>

\* a file that holds a JSON object with both preset mappings
ObjectFile(emotion, modifier) ==
    [kind |-> "json", type |-> "object",
     members |-> <<[name |-> "emotion_presets", table |-> emotion],
                   [name |-> "modifier_presets", table |-> modifier]>>]

\* config.get(name, {})
DictGet(members, name) ==
    IF \E k \in 1..Len(members) : members[k].name = name
    THEN members[CHOOSE k \in 1..Len(members) : members[k].name = name].table
    ELSE EmptyPresets

\* the result is [raised, emotion, modifier]: raised stands for an exception
\* that leaves the method
_load_presets(file) ==
    IF file.kind \in {"missing", "invalid_json"}
    THEN [raised |-> FALSE, emotion |-> EmptyPresets, modifier |-> EmptyPresets]
    ELSE IF file.kind = "unreadable" \/ file.type # "object"
    THEN [raised |-> TRUE, emotion |-> EmptyPresets, modifier |-> EmptyPresets]
    ELSE [raised |-> FALSE,
          emotion |-> DictGet(file.members, "emotion_presets"),
          modifier |-> DictGet(file.members, "modifier_presets")]

\* BracketMarkupProcessor(config_path, spell_pause_duration)
Construct ==
    /\ pc = "construct"
    /\ LET r == _load_presets(config_file)
       IN  IF r.raised
           THEN /\ pc' = "raised"
                /\ UNCHANGED <<emotion_presets, modifier_presets>>
           ELSE /\ emotion_presets' = r.emotion
                /\ modifier_presets' = r.modifier
                /\ pc' = "loop"
    /\ UNCHANGED <<Elsewhere, spell_pause_duration, config_file, markup_text, tokens, i,
                   segments, attribute_stack, current_text_buffer,
                   text_segment_created, result>>

(***************************************************************************)
(* _apply_attributes.  The result is [raised, attrs]: raised stands for    *)
(* the KeyError of attrs[key] *= value on a key the dictionary lacks.      *)
(***************************************************************************)
\* a preset application that sets the value instead of multiplying
RECURSIVE ApplyPreset_Assign(_, _)
ApplyPreset_Assign(attrs, items) ==
    IF items = <<>> THEN [raised |-> FALSE, attrs |-> attrs]
    ELSE LET key == Head(items).key
         IN  IF key \notin DOMAIN attrs
             THEN [raised |-> TRUE, attrs |-> attrs]
             ELSE ApplyPreset_Assign([attrs EXCEPT ![key] = Head(items).value],
                                     Tail(items))

\* for key, value in preset.items(): attrs[key] *= value
RECURSIVE ApplyPreset(_, _)
ApplyPreset(attrs, items) ==
    IF items = <<>> THEN [raised |-> FALSE, attrs |-> attrs]
    ELSE LET key == Head(items).key
         IN  IF key \notin DOMAIN attrs
             THEN [raised |-> TRUE, attrs |-> attrs]
             ELSE ApplyPreset([attrs EXCEPT ![key] = attrs[key] * Head(items).value],
                              Tail(items))

\* the branch of a key:value token
ApplyKeyValue(attrs, attr) ==
    LET colon == CHOOSE k \in 1..Len(attr) :
                     attr[k] = ":" /\ \A m \in 1..(k - 1) : attr[m] # ":"
        key   == Strip(SubSeq(attr, 1, colon - 1))
        value == Strip(SubSeq(attr, colon + 1, Len(attr)))
    IN  IF key = KEY_TEXT.spell
        THEN [attrs EXCEPT !.spell =
                  (Lower(value) = <<"t", "r", "u", "e">> \/ value = <<"1">>)]
        ELSE IF \E f \in DOMAIN attrs : KEY_TEXT[f] = key
             THEN LET f == CHOOSE f \in DOMAIN attrs : KEY_TEXT[f] = key
                  IN  IF ParseFloat(value).ok
                      THEN [attrs EXCEPT ![f] = ParseFloat(value).val]
                      ELSE attrs
             ELSE attrs

\* one iteration of the loop over new_attrs_str.split(',')
ApplyToken(attrs, rawattr, emotion, modifier) ==
    LET attr == Lower(Strip(rawattr))
    IN  IF ":" \in Range(attr)
        THEN [raised |-> FALSE, attrs |-> ApplyKeyValue(attrs, attr)]
        ELSE IF attr = KEY_TEXT.spell
        THEN [raised |-> FALSE, attrs |-> [attrs EXCEPT !.spell = TRUE]]
        ELSE IF attr \in DOMAIN emotion
        THEN ApplyPreset(attrs, emotion[attr])
        ELSE IF attr \in DOMAIN modifier
        THEN ApplyPreset(attrs, modifier[attr])
        ELSE [raised |-> FALSE, attrs |-> attrs]

RECURSIVE ApplyTokens(_, _, _, _)
ApplyTokens(attrs, parts, emotion, modifier) ==
    IF parts = <<>> THEN [raised |-> FALSE, attrs |-> attrs]
    ELSE LET r == ApplyToken(attrs, Head(parts), emotion, modifier)
         IN  IF r.raised THEN r
             ELSE ApplyTokens(r.attrs, Tail(parts), emotion, modifier)

_apply_attributes(current_attrs, new_attrs_str, emotion, modifier) ==
    ApplyTokens(current_attrs, Split(new_attrs_str, ","), emotion, modifier)

(***************************************************************************)
(* _flush_text_buffer.                                                     *)
(***************************************************************************)
\* a spelling that passes every character through unchanged
PhoneticChar_Raw(char) == <<char>>

\* the phonetic form of one character, or the character itself
PhoneticChar(char) ==
    IF Upper(char) \in DOMAIN _PHONETIC_SPELLING_MAP
    THEN _PHONETIC_SPELLING_MAP[Upper(char)]
    ELSE <<char>>

\* the segments of a spelled flush: one per character, a separator after
\* each but the last
RECURSIVE SpelledSegments(_, _, _)
SpelledSegments(text_content, scope, pause) ==
    IF text_content = <<>> THEN <<>>
    ELSE LET sound == SpeechSegment(PhoneticChar(Head(text_content)), 0, 0,
                                    scope.rate, scope.pitch, scope.volume)
             gap   == SpeechSegment(<<>>, pause, 0,
                                    scope.rate, scope.pitch, scope.volume)
         IN  IF Len(text_content) = 1 THEN <<sound>>
             ELSE <<sound, gap>> \o SpelledSegments(Tail(text_content), scope, pause)

\* a plain flush that forgets the pending pause
PlainSegment_NoPause(text_content, scope) ==
    SpeechSegment(text_content, 0, 0, scope.rate, scope.pitch, scope.volume)

\* the segment of a plain flush
PlainSegment(text_content, scope) ==
    SpeechSegment(text_content, scope.pause_before, 0,
                  scope.rate, scope.pitch, scope.volume)

\* a merge test that takes any text for punctuation
IsMerge_AnyText(text_content, segs) ==
    /\ segs # <<>>
    /\ segs[Len(segs)].text # <<>>

\* the test that sends a flush to the punctuation merge
IsMerge(text_content, segs) ==
    /\ \A k \in 1..Len(text_content) : text_content[k] \in PUNCTUATION
    /\ segs # <<>>
    /\ segs[Len(segs)].text # <<>>

\* a merge that extends the first segment
MergeIntoLast_First(segs, text_content) ==
    [segs EXCEPT ![1].text = @ \o text_content]

\* segments[-1].text += text_content
MergeIntoLast(segs, text_content) ==
    [segs EXCEPT ![Len(segs)].text = @ \o text_content]

\* a reset that clears the pending pause of the root scope
ResetPauseBefore_Root(stack) ==
    [stack EXCEPT ![1].pause_before = 0]

\* attribute_stack[-1]['pause_before'] = 0.0
ResetPauseBefore(stack) ==
    [stack EXCEPT ![Len(stack)].pause_before = 0]

\* the whole closure, on the variables it reads and writes
FlushTextBuffer(segs, stack, buffer, created, pause) ==
    IF buffer = <<>>
    THEN [segments |-> segs, attribute_stack |-> stack,
          current_text_buffer |-> buffer, text_segment_created |-> created]
    ELSE LET text_content == Strip(JoinWithSpace(buffer))
             flushed ==
                 IF text_content = <<>>
                 THEN [segments |-> segs, created |-> created]
                 ELSE IF IsMerge(text_content, segs)
                 THEN [segments |-> MergeIntoLast(segs, text_content),
                       created |-> created]
                 ELSE IF Top(stack).spell
                 THEN [segments |-> segs \o SpelledSegments(text_content, Top(stack), pause),
                       created |-> TRUE]
                 ELSE [segments |-> Append(segs, PlainSegment(text_content, Top(stack))),
                       created |-> TRUE]
         IN  [segments |-> flushed.segments,
              attribute_stack |-> ResetPauseBefore(stack),
              current_text_buffer |-> <<>>,
              text_segment_created |-> flushed.created]

(***************************************************************************)
(* The token loop of parse_markup.                                         *)
(***************************************************************************)
IsTag(token) == token[1] = "[" /\ token[Len(token)] = "]"

IsCloseToken(token) == token = <<"[", "/", "]">>

IsPauseToken(token) ==
    IsTag(token) /\ ~IsCloseToken(token) /\ StartsWith(token, PAUSE_PREFIX)

IsOpenToken(token) ==
    IsTag(token) /\ ~IsCloseToken(token) /\ ~StartsWith(token, PAUSE_PREFIX)

\* float(token[7:-1])
PauseDuration(token) == ParseFloat(SubSeq(token, 8, Len(token) - 1))

\* token[1:-1]
AttrsStr(token) == SubSeq(token, 2, Len(token) - 1)

\* if len(attribute_stack) > 1: attribute_stack.pop()
PopScope(stack) ==
    IF Len(stack) > 1 THEN SubSeq(stack, 1, Len(stack) - 1) ELSE stack

\* a push that is skipped when the tag changes nothing
PushScope_SkipEqual(stack, temp_attrs) ==
    IF temp_attrs = Top(stack) THEN stack ELSE Append(stack, temp_attrs)

\* attribute_stack.append(temp_attrs)
PushScope(stack, temp_attrs) == Append(stack, temp_attrs)

\* an accumulation that overwrites pause_after instead of adding to it
AccumulatePause_Overwrite(segs, stack, duration) ==
    IF segs # <<>>
    THEN [segments |-> [segs EXCEPT ![Len(segs)].pause_after = duration],
          attribute_stack |-> stack]
    ELSE [segments |-> segs,
          attribute_stack |-> [stack EXCEPT ![Len(stack)].pause_before = @ + duration]]

\* the accumulation of a parsed pause duration
AccumulatePause(segs, stack, duration) ==
    IF segs # <<>>
    THEN [segments |-> [segs EXCEPT ![Len(segs)].pause_after = @ + duration],
          attribute_stack |-> stack]
    ELSE [segments |-> segs,
          attribute_stack |-> [stack EXCEPT ![Len(stack)].pause_before = @ + duration]]

\* an opening tag that never flushes
OpenFlushes_Never(buffer, temp_attrs, stack) == FALSE

\* the condition under which an opening tag flushes
OpenFlushes(buffer, temp_attrs, stack) ==
    buffer # <<>> /\ temp_attrs # Top(stack)

\* a final handling that appends a pending pause whatever was created
FinalSegments_AlwaysPause(segs, stack, created) ==
    IF Top(stack).pause_before > 0
    THEN Append(segs, SpeechSegment(<<>>, Top(stack).pause_before, 0, 1, 1, 1))
    ELSE IF segs = <<>> /\ ~created
    THEN <<DefaultSegment>>
    ELSE segs

\* a final handling that lacks the fallback to the default segment
FinalSegments_NoDefault(segs, stack, created) ==
    IF ~created /\ Top(stack).pause_before > 0
    THEN Append(segs, SpeechSegment(<<>>, Top(stack).pause_before, 0, 1, 1, 1))
    ELSE segs

\* the final handling after the last flush: the returned list
FinalSegments(segs, stack, created) ==
    IF ~created /\ Top(stack).pause_before > 0
    THEN Append(segs, SpeechSegment(<<>>, Top(stack).pause_before, 0, 1, 1, 1))
    ELSE IF segs = <<>> /\ ~created
    THEN <<DefaultSegment>>
    ELSE segs

InLoop == pc = "loop" /\ i <= Len(tokens)

Config == <<emotion_presets, modifier_presets, spell_pause_duration,
            markup_text, tokens, config_file>>

CloseTag ==
    /\ InLoop
    /\ IsCloseToken(tokens[i])
    /\ LET f == FlushTextBuffer(segments, attribute_stack, current_text_buffer,
                                text_segment_created, spell_pause_duration)
       IN  /\ segments' = f.segments
           /\ attribute_stack' = PopScope(f.attribute_stack)
           /\ current_text_buffer' = f.current_text_buffer
           /\ text_segment_created' = f.text_segment_created
    /\ i' = i + 1
    /\ UNCHANGED <<Config, Elsewhere, pc, result>>

PauseTag ==
    /\ InLoop
    /\ IsPauseToken(tokens[i])
    /\ LET f == FlushTextBuffer(segments, attribute_stack, current_text_buffer,
                                text_segment_created, spell_pause_duration)
           d == PauseDuration(tokens[i])
           a == AccumulatePause(f.segments, f.attribute_stack, d.val)
       IN  /\ segments' = IF d.ok THEN a.segments ELSE f.segments
           /\ attribute_stack' = IF d.ok THEN a.attribute_stack ELSE f.attribute_stack
           /\ current_text_buffer' = f.current_text_buffer
           /\ text_segment_created' = f.text_segment_created
    /\ i' = i + 1
    /\ UNCHANGED <<Config, Elsewhere, pc, result>>

OpenTag ==
    /\ InLoop
    /\ IsOpenToken(tokens[i])
    /\ LET r == _apply_attributes(Top(attribute_stack), AttrsStr(tokens[i]),
                                  emotion_presets, modifier_presets)
           f == IF OpenFlushes(current_text_buffer, r.attrs, attribute_stack)
                THEN FlushTextBuffer(segments, attribute_stack, current_text_buffer,
                                     text_segment_created, spell_pause_duration)
                ELSE [segments |-> segments, attribute_stack |-> attribute_stack,
                      current_text_buffer |-> current_text_buffer,
                      text_segment_created |-> text_segment_created]
       IN  IF r.raised
           THEN /\ pc' = "raised"
                /\ UNCHANGED <<i, segments, attribute_stack, current_text_buffer,
                               text_segment_created>>
           ELSE /\ segments' = f.segments
                /\ attribute_stack' = PushScope(f.attribute_stack, r.attrs)
                /\ current_text_buffer' = f.current_text_buffer
                /\ text_segment_created' = f.text_segment_created
                /\ i' = i + 1
                /\ pc' = pc
    /\ UNCHANGED <<Config, Elsewhere, result>>

\* a text token that replaces the buffer instead of joining it
PlainText_Overwrite ==
    /\ InLoop
    /\ ~IsTag(tokens[i])
    /\ current_text_buffer' =
           IF Strip(tokens[i]) # <<>>
           THEN <<NormalizeText(tokens[i])>>
           ELSE current_text_buffer
    /\ i' = i + 1
    /\ UNCHANGED <<Config, Elsewhere, segments, attribute_stack, text_segment_created, pc, result>>

\* a text token: buffered when it is not blank
PlainText ==
    /\ InLoop
    /\ ~IsTag(tokens[i])
    /\ current_text_buffer' =
           IF Strip(tokens[i]) # <<>>
           THEN Append(current_text_buffer, NormalizeText(tokens[i]))
           ELSE current_text_buffer
    /\ i' = i + 1
    /\ UNCHANGED <<Config, Elsewhere, segments, attribute_stack, text_segment_created, pc, result>>

\* the statements after the loop, up to the return
Finish ==
    /\ pc = "loop"
    /\ i > Len(tokens)
    /\ LET f == FlushTextBuffer(segments, attribute_stack, current_text_buffer,
                                text_segment_created, spell_pause_duration)
       IN  /\ segments' = IF f.segments = <<>> /\ Top(f.attribute_stack).pause_before <= 0
                           THEN f.segments
                           ELSE FinalSegments(f.segments, f.attribute_stack,
                                              f.text_segment_created)
           /\ attribute_stack' = f.attribute_stack
           /\ current_text_buffer' = f.current_text_buffer
           /\ text_segment_created' = f.text_segment_created
           /\ result' = FinalSegments(f.segments, f.attribute_stack,
                                      f.text_segment_created)
    /\ pc' = "done"
    /\ UNCHANGED <<Config, Elsewhere, i>>

Next == CloseTag \/ PauseTag \/ OpenTag \/ PlainText \/ Finish

(***************************************************************************)
(* Inputs.  A markup text is a concatenation of lexemes: whole tags, text  *)
(* runs and stray brackets.                                                *)
(***************************************************************************)
RECURSIVE Concat(_)
Concat(parts) ==
    IF parts = <<>> THEN <<>> ELSE Head(parts) \o Concat(Tail(parts))

SeqsUpTo(S, n) == UNION {[1..k -> S] : k \in 0..n}

TagOf(inner) == <<"[">> \o inner \o <<"]">>

TxtPause == <<"p", "a", "u", "s", "e", ":">>
TxtHappy == <<"h", "a", "p", "p", "y">>
TxtLouder == <<"l", "o", "u", "d", "e", "r">>

LexPause1 == TagOf(TxtPause \o <<"1">>)
LexClose == TagOf(<<"/">>)
LexHappy == TagOf(TxtHappy)
LexSpell == TagOf(KEY_TEXT.spell)
LexWord == <<"O", "k">>
LexDot == <<".">>
LexSpace == <<" ">>

\* the lexemes of the main specification
Lexemes == {LexPause1, LexClose, LexHappy, LexSpell, LexWord, LexDot, LexSpace}

\* a configuration file with well-formed presets
GoodEmotionPresets ==
    (TxtHappy :> <<[key |-> "rate", value |-> 2], [key |-> "pitch", value |-> 3]>>)

GoodModifierPresets ==
    (TxtLouder :> <<[key |-> "volume", value |-> 2]>>)

\* the pause between spelled characters used by the main specification
MainSpellPause == 2

InitParse(text) ==
    /\ markup_text = text
    /\ tokens = Tokenize(text)
    /\ i = 1
    /\ segments = <<>>
    /\ attribute_stack = <<DefaultAttrs>>
    /\ current_text_buffer = <<>>
    /\ text_segment_created = FALSE
    /\ pc = "loop"
    /\ result = <<>>
    /\ Quiet

Init ==
    /\ emotion_presets = GoodEmotionPresets
    /\ modifier_presets = GoodModifierPresets
    /\ config_file = ObjectFile(GoodEmotionPresets, GoodModifierPresets)
    /\ spell_pause_duration = MainSpellPause
    /\ \E parts \in SeqsUpTo(Lexemes, MaxLexemes) : InitParse(Concat(parts))

Spec == Init /\ [][Next]_vars

(***************************************************************************)
(* A second family of inputs: opening tags with richer attribute specs.    *)
(***************************************************************************)
TxtRate3 == KEY_TEXT.rate \o <<":", "3">>

\* [rate:3]
LexRate3 == TagOf(TxtRate3)
\* [happy, LOUDER]
LexHappyLouder == TagOf(TxtHappy \o <<",", " ", "L", "O", "U", "D", "E", "R">>)
\* [happy,rate:x,pitch:2]
LexMixed ==
    TagOf(TxtHappy \o <<",">> \o KEY_TEXT.rate \o <<":", "x", ",">>
          \o KEY_TEXT.pitch \o <<":", "2">>)
\* [pause_before:1]
LexPauseBefore == TagOf(KEY_TEXT.pause_before \o <<":", "1">>)
\* [bogus:1,spell:true]
LexBogusSpell ==
    TagOf(<<"b", "o", "g", "u", "s", ":", "1", ",">> \o KEY_TEXT.spell
          \o <<":", "t", "r", "u", "e">>)
\* [spell:x]
LexSpellX == TagOf(KEY_TEXT.spell \o <<":", "x">>)

AttrLexemes ==
    {LexRate3, LexHappyLouder, LexMixed, LexPauseBefore, LexBogusSpell,
     LexSpellX, LexClose, LexWord, LexDot, LexPause1}

InitAttrs ==
    /\ emotion_presets = GoodEmotionPresets
    /\ modifier_presets = GoodModifierPresets
    /\ config_file = ObjectFile(GoodEmotionPresets, GoodModifierPresets)
    /\ spell_pause_duration = MainSpellPause
    /\ \E parts \in SeqsUpTo(AttrLexemes, MaxAttrLexemes) : InitParse(Concat(parts))

SpecAttrs == InitAttrs /\ [][Next]_vars

(***************************************************************************)
(* A third family: the preset tables vary over what json.load can give.    *)
(***************************************************************************)
\* {"happy": {"speed": 2}}: a preset with a key the attributes do not have
BadEmotionPresets ==
    (TxtHappy :> <<[key |-> "speed", value |-> 2]>>)

PresetTables ==
    {<<GoodEmotionPresets, GoodModifierPresets>>,
     <<EmptyPresets, EmptyPresets>>,
     <<BadEmotionPresets, GoodModifierPresets>>}

CfgLexemes ==
    {LexHappy, TagOf(TxtLouder), LexClose, LexWord, LexPause1}

InitCfg ==
    /\ \E t \in PresetTables :
           /\ emotion_presets = t[1]
           /\ modifier_presets = t[2]
           /\ config_file = ObjectFile(t[1], t[2])
    /\ spell_pause_duration = MainSpellPause
    /\ \E parts \in SeqsUpTo(CfgLexemes, MaxCfgLexemes) : InitParse(Concat(parts))

SpecCfg == InitCfg /\ [][Next]_vars

(***************************************************************************)
(* A fourth family: the processor is still to be constructed and the       *)
(* configuration file varies over what open and json.load can meet.        *)
(***************************************************************************)
NoFile(kind) == [kind |-> kind, type |-> "none", members |-> <<>>]

ConfigFiles ==
    {NoFile("missing"), NoFile("unreadable"), NoFile("invalid_json"),
     [kind |-> "json", type |-> "array", members |-> <<>>],
     [kind |-> "json", type |-> "object", members |-> <<>>],
     [kind |-> "json", type |-> "object",
      members |-> <<[name |-> "emotion_presets", table |-> GoodEmotionPresets]>>],
     ObjectFile(GoodEmotionPresets, GoodModifierPresets)}

LoadLexemes == {LexHappy, LexClose, LexWord, LexPause1}

InitLoad ==
    /\ config_file \in ConfigFiles
    /\ emotion_presets = EmptyPresets
    /\ modifier_presets = EmptyPresets
    /\ spell_pause_duration = MainSpellPause
    /\ \E parts \in SeqsUpTo(LoadLexemes, MaxLoadLexemes) :
           /\ markup_text = Concat(parts)
           /\ tokens = Tokenize(Concat(parts))
    /\ i = 1
    /\ segments = <<>>
    /\ attribute_stack = <<DefaultAttrs>>
    /\ current_text_buffer = <<>>
    /\ text_segment_created = FALSE
    /\ pc = "construct"
    /\ result = <<>>
    /\ Quiet

NextLoad == Construct \/ Next

SpecLoad == InitLoad /\ [][NextLoad]_vars

(***************************************************************************)
(* Properties.                                                             *)
(***************************************************************************)
\* the token the last step of the loop processed
Processed == tokens[i - 1]

AfterPause == pc = "loop" /\ i > 1 /\ IsPauseToken(Processed)
AfterClose == pc = "loop" /\ i > 1 /\ IsCloseToken(Processed)
AfterOpen == pc = "loop" /\ i > 1 /\ IsOpenToken(Processed)

\* the indices of the segments a step appends
NewSegments == (Len(segments) + 1)..Len(segments')

\* C1: parse_markup returns at least one segment; when no flush produced a
\* segment, the result is exactly one segment with empty text, carrying the
\* pending pause_before when that is positive and all defaults otherwise.
C1_ResultNeverEmpty ==
    pc = "done" =>
        /\ Len(result) >= 1
        /\ ~text_segment_created =>
               result = <<[DefaultSegment EXCEPT !.pause_before =
                              IF Top(attribute_stack).pause_before > 0
                              THEN Top(attribute_stack).pause_before ELSE 0]>>

C1_Witness ==
    /\ pc = "done"
    /\ ~text_segment_created
    /\ Len(attribute_stack) > 1
    /\ Len(result) = 1
    /\ result[1].text = <<>>
    /\ result[1].pause_before = 2

\* C2: parse_markup never ends in a raised error, whatever the markup and
\* whatever preset tables the configuration file gave.
C2_NeverRaises == pc # "raised"

\* C3: a pending pause_before is consumed exactly once: the first segment of
\* a flush that appends segments (a non-merge flush) carries the pending
\* pause_before of the flushing scope, that scope's pause_before is 0 after
\* the step, and once the output is non-empty (the pending pause was handed
\* over) no segment appended later with text carries a pause_before again.
C3_PauseConsumedOnce ==
    [][(pc = "loop" /\ current_text_buffer # <<>> /\ NewSegments # {}) =>
          /\ segments'[Len(segments) + 1].pause_before
                 = Top(attribute_stack).pause_before
          /\ Len(attribute_stack') >= Len(attribute_stack) =>
                 attribute_stack'[Len(attribute_stack)].pause_before = 0
          /\ \A k \in NewSegments :
                 (segments # <<>> /\ segments'[k].text # <<>>) =>
                     segments'[k].pause_before = 0]_vars

\* C4: a valid pause tag processed while the output is empty adds its
\* duration to the pause_before of the root scope, at any nesting depth.
C4_PauseGoesToRoot ==
    [][(InLoop /\ IsPauseToken(tokens[i]) /\ PauseDuration(tokens[i]).ok
            /\ segments' = <<>>) =>
          attribute_stack'[1].pause_before
              = attribute_stack[1].pause_before + PauseDuration(tokens[i]).val]_vars

\* C5: a valid pause tag flushes the buffer first; when the output is then
\* non-empty its duration is added to the pause_after of the last segment
\* and of no other: the segments that were there keep their fields (the last
\* one up to its text and pause_after), new segments before the last have
\* pause_after 0, and no scope changes beyond the flush's reset of the top
\* scope's pause_before.
C5_PauseAddsToLastSegment ==
    [][(InLoop /\ IsPauseToken(tokens[i]) /\ PauseDuration(tokens[i]).ok
            /\ segments' # <<>>) =>
          LET d    == PauseDuration(tokens[i]).val
              n    == Len(segments)
              last == Len(segments')
          IN  /\ current_text_buffer' = <<>>
              /\ last >= n
              /\ segments'[last].pause_after
                     = (IF last = n THEN segments[n].pause_after ELSE 0) + d
              /\ \A k \in 1..n : k # last => segments'[k] = segments[k]
              /\ last = n =>
                     [segments'[n] EXCEPT !.text = <<>>, !.pause_after = 0]
                         = [segments[n] EXCEPT !.text = <<>>, !.pause_after = 0]
              /\ \A k \in (n + 1)..(last - 1) : segments'[k].pause_after = 0
              /\ attribute_stack' =
                     IF current_text_buffer = <<>> THEN attribute_stack
                     ELSE [attribute_stack EXCEPT
                               ![Len(attribute_stack)].pause_before = 0]]_vars

C5_Witness ==
    /\ AfterPause
    /\ i > 2
    /\ IsPauseToken(tokens[i - 2])
    /\ segments # <<>>
    /\ segments[Len(segments)].pause_after = 2

\* the markup is one pause tag followed by text without brackets
LeadingPauseThenText ==
    /\ MatchPauseTag(markup_text, 1) # 0
    /\ \A k \in (MatchPauseTag(markup_text, 1) + 1)..Len(markup_text) :
           markup_text[k] \notin {"[", "]"}

LeadingPause ==
    ParseFloat(SubSeq(markup_text, 8, MatchPauseTag(markup_text, 1) - 1))

TextAfterLeadingPause ==
    SubSeq(markup_text, MatchPauseTag(markup_text, 1) + 1, Len(markup_text))

\* C6: a leading pause tag of duration d followed by plain text and no other
\* tag parses to exactly one segment: the normalized text, pause_before d,
\* pause_after 0.
C6_LeadingPauseThenText ==
    (pc = "done" /\ LeadingPauseThenText /\ LeadingPause.ok) =>
        /\ Len(result) = 1
        /\ result[1].text = NormalizeText(TextAfterLeadingPause)
        /\ result[1].pause_before = LeadingPause.val
        /\ result[1].pause_after = 0

C6_Witness ==
    /\ pc = "done"
    /\ LeadingPauseThenText
    /\ LeadingPause.ok
    /\ Len(TextAfterLeadingPause) > Len(result[1].text)
    /\ " " \in Range(result[1].text)
    /\ result[1].pause_before = 1

RECURSIVE SumOfPauses(_)
SumOfPauses(toks) ==
    IF toks = <<>> THEN 0
    ELSE (IF IsPauseToken(Head(toks)) /\ PauseDuration(Head(toks)).ok
          THEN PauseDuration(Head(toks)).val ELSE 0) + SumOfPauses(Tail(toks))

\* the input has pause tags and no text
PausesAndNoText ==
    /\ \E k \in 1..Len(tokens) : IsPauseToken(tokens[k])
    /\ \A k \in 1..Len(tokens) : IsTag(tokens[k]) \/ Strip(tokens[k]) = <<>>

\* C7: an input with pause tags and no text parses to exactly one segment
\* with empty text, pause_before the sum of the pause durations and
\* pause_after 0.
C7_OnlyPauses ==
    (pc = "done" /\ PausesAndNoText) =>
        /\ Len(result) = 1
        /\ result[1].text = <<>>
        /\ result[1].pause_before = SumOfPauses(tokens)
        /\ result[1].pause_after = 0

\* the opening tags that are open once tokens 1..k are processed
RECURSIVE OpenTagsAfter(_)
OpenTagsAfter(k) ==
    IF k = 0 THEN <<>>
    ELSE LET before == OpenTagsAfter(k - 1)
         IN  IF IsCloseToken(tokens[k])
             THEN (IF before = <<>> THEN before
                   ELSE SubSeq(before, 1, Len(before) - 1))
             ELSE IF IsOpenToken(tokens[k]) THEN Append(before, k)
             ELSE before

\* the attribute tokens of a list of tags, outermost first, left to right
RECURSIVE AttrTokensOf(_)
AttrTokensOf(tags) ==
    IF tags = <<>> THEN <<>>
    ELSE Split(AttrsStr(tokens[Head(tags)]), ",") \o AttrTokensOf(Tail(tags))

\* the multiplier a preset has for a key, 1 when it has none
RECURSIVE MultiplierIn(_, _)
MultiplierIn(items, key) ==
    IF items = <<>> THEN 1
    ELSE IF Head(items).key = key THEN Head(items).value
    ELSE MultiplierIn(Tail(items), key)

\* the walk of the claim: a key:value token sets, a preset name multiplies
RECURSIVE WalkValue(_, _, _)
WalkValue(key, attrs, value) ==
    IF attrs = <<>> THEN value
    ELSE LET attr  == Lower(Strip(Head(attrs)))
             colon == {k \in 1..Len(attr) : attr[k] = ":"}
             first == CHOOSE k \in colon : \A m \in colon : k <= m
             next  ==
                 IF colon # {}
                 THEN IF /\ Strip(SubSeq(attr, 1, first - 1)) = KEY_TEXT[key]
                         /\ ParseFloat(SubSeq(attr, first + 1, Len(attr))).ok
                      THEN ParseFloat(SubSeq(attr, first + 1, Len(attr))).val
                      ELSE value
                 ELSE IF attr \in DOMAIN emotion_presets
                 THEN value * MultiplierIn(emotion_presets[attr], key)
                 ELSE IF attr \in DOMAIN modifier_presets
                 THEN value * MultiplierIn(modifier_presets[attr], key)
                 ELSE value
         IN  WalkValue(key, Tail(attrs), next)

Walked(key) == WalkValue(key, AttrTokensOf(OpenTagsAfter(i - 1)), 1)

SegmentIsWalked(seg) ==
    /\ seg.rate = Walked("rate")
    /\ seg.pitch = Walked("pitch")
    /\ seg.volume = Walked("volume")

\* C8 as stated: every segment added to the output has the rate, pitch and
\* volume that the walk over the attribute tokens of the open tags gives.
C8_EverySegmentWalked ==
    [][pc = "loop" => \A k \in NewSegments : SegmentIsWalked(segments'[k])]_vars

\* C8, amended: every segment a flush appends has the rate, pitch and volume
\* of the walk; the empty segment the final handling appends for a pending
\* pause has the defaults instead.
C8_FlushedSegmentsWalked ==
    [][(pc = "loop" /\ current_text_buffer # <<>>) =>
          \A k \in NewSegments : SegmentIsWalked(segments'[k])]_vars

C8_Witness ==
    /\ pc = "done"
    /\ Len(result) = 1
    /\ Len(attribute_stack) = 3
    /\ result[1].text # <<>>
    /\ result[1].rate = 6
    /\ result[1].pitch = 3
    /\ result[1].volume = 2

\* C9: an attribute spec changes no scope field other than rate, pitch,
\* volume and spell: the scope an opening tag pushes has the pause_before
\* and pause_after of the scope it was resolved from.
C9_OnlyProsodyAndSpell ==
    [][(InLoop /\ IsOpenToken(tokens[i]) /\ pc' = "loop") =>
          /\ Top(attribute_stack').pause_before = Top(attribute_stack).pause_before
          /\ Top(attribute_stack').pause_after = Top(attribute_stack).pause_after]_vars

StackStep ==
    InLoop =>
        /\ IsOpenToken(tokens[i]) =>
               Len(attribute_stack') = Len(attribute_stack) + 1
        /\ (IsCloseToken(tokens[i]) /\ Len(attribute_stack) > 1) =>
               Len(attribute_stack') = Len(attribute_stack) - 1
        /\ (IsCloseToken(tokens[i]) /\ Len(attribute_stack) = 1) =>
               Len(attribute_stack') = 1
        /\ (~IsOpenToken(tokens[i]) /\ ~IsCloseToken(tokens[i])) =>
               Len(attribute_stack') = Len(attribute_stack)

\* C10: the scope stack always holds at least the root; an opening tag
\* pushes exactly one scope, a closing tag pops exactly one when there is
\* more than the root and leaves the stack as it is otherwise.
C10_StackDiscipline ==
    [](Len(attribute_stack) >= 1) /\ [][StackStep]_vars

C10_Witness ==
    /\ AfterClose
    /\ i = 4
    /\ IsOpenToken(tokens[1])
    /\ IsCloseToken(tokens[2])
    /\ Len(attribute_stack) = 1

(***************************************************************************)
(* parse_markup as a function of the markup text, the preset tables and    *)
(* the spell pause: the token loop run to its end on a private state.      *)
(***************************************************************************)
\* the locals of a call before the loop
StartOfParse ==
    [segments |-> <<>>, attribute_stack |-> <<DefaultAttrs>>,
     current_text_buffer |-> <<>>, text_segment_created |-> FALSE,
     raised |-> FALSE]

\* the locals st after a call of _flush_text_buffer that returned f
Flushed(st, f) ==
    [st EXCEPT !.segments = f.segments,
               !.attribute_stack = f.attribute_stack,
               !.current_text_buffer = f.current_text_buffer,
               !.text_segment_created = f.text_segment_created]

\* the branch of the loop body for token; flushed is the state a call of
\* _flush_text_buffer leaves
Branch(st, flushed, token, emotion, modifier) ==
    IF IsCloseToken(token)
    THEN [flushed EXCEPT !.attribute_stack = PopScope(flushed.attribute_stack)]
    ELSE IF IsPauseToken(token)
    THEN LET d == PauseDuration(token)
             a == AccumulatePause(flushed.segments, flushed.attribute_stack, d.val)
         IN  IF d.ok
             THEN [flushed EXCEPT !.segments = a.segments,
                                  !.attribute_stack = a.attribute_stack]
             ELSE flushed
    ELSE IF IsOpenToken(token)
    THEN LET r == _apply_attributes(Top(st.attribute_stack), AttrsStr(token),
                                    emotion, modifier)
             g == IF OpenFlushes(st.current_text_buffer, r.attrs, st.attribute_stack)
                  THEN flushed ELSE st
         IN  IF r.raised THEN [st EXCEPT !.raised = TRUE]
             ELSE [g EXCEPT !.attribute_stack = PushScope(g.attribute_stack, r.attrs)]
    ELSE IF Strip(token) # <<>>
    THEN [st EXCEPT !.current_text_buffer = Append(@, NormalizeText(token))]
    ELSE st

\* one iteration of the for loop on the locals st
LoopBody(st, token, emotion, modifier, pause) ==
    Branch(st,
           Flushed(st, FlushTextBuffer(st.segments, st.attribute_stack,
                                       st.current_text_buffer,
                                       st.text_segment_created, pause)),
           token, emotion, modifier)

RECURSIVE RunLoop(_, _, _, _, _)
RunLoop(st, toks, emotion, modifier, pause) ==
    IF toks = <<>> \/ st.raised THEN st
    ELSE RunLoop(LoopBody(st, Head(toks), emotion, modifier, pause),
                 Tail(toks), emotion, modifier, pause)

\* the value parse_markup returns: [raised, segments]
parse_markup(text, emotion, modifier, pause) ==
    LET st == RunLoop(StartOfParse, Tokenize(text), emotion, modifier, pause)
        f  == FlushTextBuffer(st.segments, st.attribute_stack,
                              st.current_text_buffer, st.text_segment_created, pause)
    IN  IF st.raised THEN [raised |-> TRUE, segments |-> <<>>]
        ELSE [raised |-> FALSE,
              segments |-> FinalSegments(f.segments, f.attribute_stack,
                                         f.text_segment_created)]

\* the function computes what the token loop of the specification returns
FunctionAgreesWithLoop ==
    /\ pc = "done" =>
           parse_markup(markup_text, emotion_presets, modifier_presets,
                        spell_pause_duration)
               = [raised |-> FALSE, segments |-> result]
    /\ pc = "raised" =>
           parse_markup(markup_text, emotion_presets, modifier_presets,
                        spell_pause_duration).raised

\* the first and last position of every token of s, in order
RECURSIVE TokenSpansFrom(_, _)
TokenSpansFrom(s, p) ==
    IF p > Len(s) THEN <<>>
    ELSE LET e == MatchAt(s, p)
         IN  IF e = 0 THEN TokenSpansFrom(s, p + 1)
             ELSE <<[first |-> p, last |-> e]>> \o TokenSpansFrom(s, e + 1)

TokenSpans(s) == TokenSpansFrom(s, 1)

\* the markup text without its k-th token
WithoutToken(k) ==
    LET span == TokenSpans(markup_text)[k]
    IN  SubSeq(markup_text, 1, span.first - 1)
            \o SubSeq(markup_text, span.last + 1, Len(markup_text))

\* the k-th token is a closing tag met with only the root scope on the stack
UnmatchedClose(k) ==
    IsCloseToken(tokens[k]) /\ OpenTagsAfter(k - 1) = <<>>

\* C11: an unmatched closing tag does not alter the parse: the result equals
\* the result for the same input with that token removed.
C11_UnmatchedCloseIsNoOp ==
    pc = "done" =>
        \A k \in 1..Len(tokens) :
            UnmatchedClose(k) =>
                parse_markup(WithoutToken(k), emotion_presets, modifier_presets,
                             spell_pause_duration).segments = result

\* a step that flushes a non-empty text buffer
FlushStep == current_text_buffer # <<>> /\ current_text_buffer' = <<>>

\* the joined text of the buffer a flush step empties
FlushedText == Strip(JoinWithSpace(current_text_buffer))

AllPunctuation(t) == \A k \in 1..Len(t) : t[k] \in PUNCTUATION

\* the condition of the merge as the specification words it
MergeCase ==
    /\ AllPunctuation(FlushedText)
    /\ \E k \in 1..Len(segments) : segments[k].text # <<>>

\* C12: a flush whose joined text is all punctuation, when the output
\* already holds a segment with non-empty text, appends the text to the last
\* segment's text and leaves the number of segments unchanged; any other
\* flush of a non-empty buffer appends at least one new segment.
C12_PunctuationMerge ==
    [][FlushStep =>
          IF MergeCase
          THEN /\ Len(segments') = Len(segments)
               /\ segments'[Len(segments)].text
                      = segments[Len(segments)].text \o FlushedText
          ELSE Len(segments') > Len(segments)]_vars

\* "Ok[/].[/]": the "." has been merged onto the segment "Ok"
C12_Witness ==
    /\ AfterClose
    /\ i > 3
    /\ tokens[i - 2] = <<".">>
    /\ IsCloseToken(tokens[i - 3])
    /\ Len(segments) = 1
    /\ segments[1].text = <<"O", "k", ".">>

\* the scopes that are on the stack both before and after a step
KeptScopes ==
    1..(IF Len(attribute_stack') < Len(attribute_stack)
        THEN Len(attribute_stack') ELSE Len(attribute_stack))

\* C13: a flush that takes the punctuation-merge path leaves the
\* pause_before of every scope on the stack and the pause_before and
\* pause_after of every segment as they were.  (Steps of a pause tag are left
\* out: the tag itself adds its duration after the flush.)
C13_MergeKeepsPauseState ==
    [][(FlushStep /\ MergeCase /\ ~IsPauseToken(Processed)') =>
          /\ \A k \in KeptScopes :
                 attribute_stack'[k].pause_before = attribute_stack[k].pause_before
          /\ \A k \in 1..Len(segments) :
                 /\ segments'[k].pause_before = segments[k].pause_before
                 /\ segments'[k].pause_after = segments[k].pause_after]_vars

\* the text a spelled segment carries for the character c
PhoneticForm(c) ==
    IF Upper(c) \in DOMAIN _PHONETIC_SPELLING_MAP
    THEN _PHONETIC_SPELLING_MAP[Upper(c)]
    ELSE <<c>>

\* the step appends the 2k-1 segments that spell the k characters of the
\* flushed text under the scope that was on top
SpelledShape ==
    LET t == FlushedText
        k == Len(t)
        scope == Top(attribute_stack)
        base == Len(segments)
    IN  /\ Len(segments') = base + 2 * k - 1
        /\ \A j \in 1..(2 * k - 1) :
               LET seg == segments'[base + j]
               IN  /\ seg.rate = scope.rate
                   /\ seg.pitch = scope.pitch
                   /\ seg.volume = scope.volume
                   /\ IF j % 2 = 1
                      THEN /\ seg.text = PhoneticForm(t[(j + 1) \div 2])
                           /\ seg.pause_before = 0
                           /\ \/ seg.pause_after = 0
                              \/ j = 2 * k - 1 /\ IsPauseToken(Processed)'
                      ELSE /\ seg.text = <<>>
                           /\ seg.pause_before = spell_pause_duration
                           /\ seg.pause_after = 0

\* C14 as stated: every flush of a k-character text under a scope whose
\* spell flag is true appends exactly 2k-1 segments, the k phonetic forms with
\* pause_before 0 and pause_after 0 interleaved with k-1 empty-text segments
\* with pause_before equal to the spell pause, no trailing empty segment, all
\* with the scope's rate, pitch and volume.
C14_SpelledFlush ==
    [][(FlushStep /\ Top(attribute_stack).spell) => SpelledShape]_vars

\* C14 amended: the same for every such flush that does not take the
\* punctuation-merge path.
C14_SpelledNonMergeFlush ==
    [][(FlushStep /\ Top(attribute_stack).spell /\ ~MergeCase) => SpelledShape]_vars

\* "[spell]Ok[/]": "Oh", a separator with the spell pause, "Kay"
C14_Witness ==
    /\ AfterClose
    /\ Len(segments) = 3
    /\ segments[1].text = <<"O", "h">>
    /\ segments[2].text = <<>>
    /\ segments[2].pause_before = spell_pause_duration
    /\ segments[3].text = <<"K", "a", "y">>

\* the maximal runs of non-whitespace characters of s, in order
RECURSIVE WordsOf(_, _)
WordsOf(s, word) ==
    IF s = <<>> THEN (IF word = <<>> THEN <<>> ELSE <<word>>)
    ELSE IF Head(s) \in WHITESPACE
         THEN (IF word = <<>> THEN <<>> ELSE <<word>>) \o WordsOf(Tail(s), <<>>)
         ELSE WordsOf(Tail(s), Append(word, Head(s)))

\* s with every whitespace run collapsed to one space, and trimmed
WhitespaceNormalized(s) == JoinWithSpace(WordsOf(s, <<>>))

NoBrackets(s) == \A k \in 1..Len(s) : s[k] \notin {"[", "]"}

\* C15: an input without bracket characters parses to exactly one segment:
\* its text is the input with every whitespace run collapsed to one space and
\* trimmed ("" for a blank input), with default rate, pitch, volume and zero
\* pauses.
C15_PlainInputOneSegment ==
    (pc = "done" /\ NoBrackets(markup_text)) =>
        result = <<SpeechSegment(WhitespaceNormalized(markup_text), 0, 0, 1, 1, 1)>>

\* "Ok  Ok" has been parsed to the one segment "Ok Ok"
C15_Witness ==
    /\ pc = "done"
    /\ NoBrackets(markup_text)
    /\ \E k \in 1..(Len(markup_text) - 1) :
           markup_text[k] = " " /\ markup_text[k + 1] = " "
    /\ result = <<SpeechSegment(<<"O", "k", " ", "O", "k">>, 0, 0, 1, 1, 1)>>

IsTextToken(token) == ~IsTag(token)

IsTextRun(token) == ~IsTag(token) /\ Strip(token) # <<>>

HasText(seg) == seg.text # <<>>

\* the texts of the non-empty-text segments of the result, joined by spaces
ResultText ==
    LET kept == SelectSeq(result, HasText)
    IN  JoinWithSpace([k \in 1..Len(kept) |-> kept[k].text])

\* the input with every tag removed
TagStripped == Concat(SelectSeq(tokens, IsTextToken))

\* the non-blank text runs of the input, each whitespace-normalized, joined
\* by single spaces
RunsText ==
    LET runs == SelectSeq(tokens, IsTextRun)
    IN  JoinWithSpace([k \in 1..Len(runs) |-> WhitespaceNormalized(runs[k])])

\* no tag of the input turns the spell flag on
NoSpellTag ==
    \A k \in 1..Len(tokens) :
        IsOpenToken(tokens[k]) =>
            ~_apply_attributes(DefaultAttrs, AttrsStr(tokens[k]),
                               emotion_presets, modifier_presets).attrs.spell

\* no text run of the input consists of punctuation only
NoPunctuationRun ==
    \A k \in 1..Len(tokens) :
        IsTextRun(tokens[k]) => ~AllPunctuation(WhitespaceNormalized(tokens[k]))

\* C16 as stated: the texts of the non-empty-text segments of the result,
\* joined by single spaces, are the input with all tags stripped and its
\* whitespace normalized.
C16_TextRoundTrip ==
    pc = "done" => ResultText = WhitespaceNormalized(TagStripped)

\* C16 amended: when no tag sets the spell flag and no text run is
\* punctuation only, the joined texts of the result are the non-blank text
\* runs of the input, each whitespace-normalized, joined by single spaces.
C16_TextRunsRoundTrip ==
    (pc = "done" /\ NoSpellTag /\ NoPunctuationRun) => ResultText = RunsText

\* "Ok[spell:x]Ok": the tag changes nothing, so the two runs share a segment
C16_Witness ==
    /\ pc = "done"
    /\ NoSpellTag
    /\ NoPunctuationRun
    /\ Len(tokens) = 3
    /\ IsOpenToken(tokens[2])
    /\ Len(result) = 1
    /\ result[1].text = <<"O", "k", " ", "O", "k">>

\* the k-th segment keeps its rate, pitch, volume and pause_before
SameProsody(k) ==
    /\ segments'[k].rate = segments[k].rate
    /\ segments'[k].pitch = segments[k].pitch
    /\ segments'[k].volume = segments[k].volume
    /\ segments'[k].pause_before = segments[k].pause_before

\* C17: a segment that is in the output keeps its rate, pitch, volume and
\* pause_before in every later step; its pause_after changes only by the
\* increase a pause tag makes and its text only by the extension a
\* punctuation merge makes, and either change is made only to the segment that
\* is last.
C17_AppendedSegmentsFrozen ==
    [][/\ Len(segments') >= Len(segments)
       /\ \A k \in 1..Len(segments) :
              /\ SameProsody(k)
              /\ \/ segments'[k].pause_after = segments[k].pause_after
                 \/ /\ IsPauseToken(Processed)'
                    /\ i' = i + 1
                    /\ k = Len(segments')
                    /\ segments'[k].pause_after
                           = segments[k].pause_after + PauseDuration(Processed').val
              /\ \/ segments'[k].text = segments[k].text
                 \/ /\ FlushStep
                    /\ MergeCase
                    /\ k = Len(segments')
                    /\ segments'[k].text = segments[k].text \o FlushedText]_vars

\* "Ok[happy]Ok[/].": the "." has extended the second segment only
C17_Witness ==
    /\ pc = "done"
    /\ tokens # <<>>
    /\ tokens[Len(tokens)] = <<".">>
    /\ Len(result) = 2
    /\ result[1].text = <<"O", "k">>
    /\ result[2].text = <<"O", "k", ".">>

\* the scope stack after the first n tokens
StackAfter(n) ==
    RunLoop(StartOfParse, SubSeq(tokens, 1, n), emotion_presets,
            modifier_presets, spell_pause_duration).attribute_stack

\* the closing tag at b closes the scope the opening tag at a pushed
Matches(a, b) ==
    /\ a < b
    /\ IsOpenToken(tokens[a])
    /\ IsCloseToken(tokens[b])
    /\ Len(StackAfter(b)) = Len(StackAfter(a)) - 1
    /\ \A m \in a..(b - 1) : Len(StackAfter(m)) >= Len(StackAfter(a))

\* no step changes a scope below the top of the stack
LowerScopesKept ==
    \A k \in 1..(Len(attribute_stack) - 1) : attribute_stack'[k] = attribute_stack[k]

\* after the matching close the stack is the one the child was pushed on
ParentRestored ==
    pc = "done" =>
        \A a, b \in 1..Len(tokens) :
            Matches(a, b) =>
                StackAfter(b) = SubSeq(StackAfter(a), 1, Len(StackAfter(a)) - 1)

\* C18: scope isolation: nothing done while a child scope is on top
\* (resolving a tag, accumulating a pause, the reset of pause_before by a
\* flush) changes a field of the scopes below it, and after the matching
\* closing tag the parent scope is exactly as it was when the child was pushed.
C18_ScopeIsolation ==
    [][LowerScopesKept]_vars /\ []ParentRestored

\* "[pause:1][happy]Ok[/]": the root keeps its pending pause through the
\* flush under the child
C18_Witness ==
    /\ AfterClose
    /\ i > 4
    /\ IsOpenToken(tokens[i - 3])
    /\ segments # <<>>
    /\ Len(attribute_stack) = 1
    /\ attribute_stack[1].pause_before = 1

TxtTrue == <<"t", "r", "u", "e">>
TxtFalse == <<"f", "a", "l", "s", "e">>

\* the token of an attribute spec has one of the recognized forms
Recognized(rawattr) ==
    LET attr == Lower(Strip(rawattr))
    IN  IF ":" \in Range(attr)
        THEN LET colon == CHOOSE k \in 1..Len(attr) :
                              attr[k] = ":" /\ \A m \in 1..(k - 1) : attr[m] # ":"
                 key   == Strip(SubSeq(attr, 1, colon - 1))
                 value == Strip(SubSeq(attr, colon + 1, Len(attr)))
             IN  \/ /\ key \in {KEY_TEXT.rate, KEY_TEXT.pitch, KEY_TEXT.volume}
                    /\ ParseFloat(value).ok
                 \/ /\ key = KEY_TEXT.spell
                    /\ value \in {TxtTrue, <<"1">>, TxtFalse, <<"0">>}
        ELSE \/ attr = KEY_TEXT.spell
             \/ attr \in DOMAIN emotion_presets
             \/ attr \in DOMAIN modifier_presets

\* C19: every token of an attribute spec that has none of the recognized
\* forms is skipped and the remaining tokens are applied in order: the scope
\* an opening tag pushes is the one its recognized tokens alone produce.
C19_UnrecognizedTokensSkipped ==
    [][(InLoop /\ IsOpenToken(tokens[i]) /\ pc' = "loop") =>
          Top(attribute_stack')
              = ApplyTokens(Top(attribute_stack),
                            SelectSeq(Split(AttrsStr(tokens[i]), ","), Recognized),
                            emotion_presets, modifier_presets).attrs]_vars

\* the load met a failure: no file, an unreadable file, invalid JSON, or JSON
\* that is not an object
LoadFailure == config_file.kind # "json" \/ config_file.type # "object"

\* C20: whatever the configuration file is (missing, unreadable, not valid
\* JSON, valid JSON that is not an object), constructing the processor raises
\* nothing, and on any failure both preset tables are empty.
C20_LoadNeverRaises ==
    [][pc = "construct" =>
          /\ pc' # "raised"
          /\ LoadFailure =>
                 (emotion_presets' = EmptyPresets /\ modifier_presets' = EmptyPresets)]_vars

(***************************************************************************)
(* Two parse_markup calls on one processor.  The locals of the second call *)
(* are the record other.locals and its steps are those of the same loop.   *)
(***************************************************************************)
\* the variables of the first call
FirstCall ==
    <<i, segments, attribute_stack, current_text_buffer, text_segment_created,
      pc, result>>

\* the second call on entry
StartCall(text) ==
    [markup_text |-> text, tokens |-> Tokenize(text), i |-> 1,
     locals |-> StartOfParse, pc |-> "loop", result |-> <<>>]

\* the second call after an iteration that left the locals st
OtherAfter(st) ==
    [other EXCEPT !.locals = st,
                  !.i = IF st.raised THEN @ ELSE @ + 1,
                  !.pc = IF st.raised THEN "raised" ELSE "loop"]

\* an iteration of the second call that works on the scope stack of the first
OtherStep_SharedStack ==
    /\ other.pc = "loop"
    /\ other.i <= Len(other.tokens)
    /\ other' = OtherAfter(LoopBody([other.locals EXCEPT
                                          !.attribute_stack = attribute_stack],
                                     other.tokens[other.i], emotion_presets,
                                     modifier_presets, spell_pause_duration))
    /\ UNCHANGED <<Config, FirstCall, Downstream>>

\* one iteration of the for loop of the second call
OtherStep ==
    /\ other.pc = "loop"
    /\ other.i <= Len(other.tokens)
    /\ other' = OtherAfter(LoopBody(other.locals, other.tokens[other.i],
                                     emotion_presets, modifier_presets,
                                     spell_pause_duration))
    /\ UNCHANGED <<Config, FirstCall, Downstream>>

\* the statements after the loop of the second call, up to the return
OtherFinish ==
    /\ other.pc = "loop"
    /\ other.i > Len(other.tokens)
    /\ LET st == other.locals
           f  == FlushTextBuffer(st.segments, st.attribute_stack,
                                 st.current_text_buffer, st.text_segment_created,
                                 spell_pause_duration)
       IN  other' = [other EXCEPT
                        !.locals = [st EXCEPT
                            !.segments = f.segments,
                            !.attribute_stack = f.attribute_stack,
                            !.current_text_buffer = f.current_text_buffer,
                            !.text_segment_created = f.text_segment_created],
                        !.result = FinalSegments(f.segments, f.attribute_stack,
                                                 f.text_segment_created),
                        !.pc = "done"]
    /\ UNCHANGED <<Config, FirstCall, Downstream>>

PairLexemes == {LexHappy, LexSpell, LexClose, LexWord, LexPause1}

InitPair ==
    /\ emotion_presets = GoodEmotionPresets
    /\ modifier_presets = GoodModifierPresets
    /\ config_file = ObjectFile(GoodEmotionPresets, GoodModifierPresets)
    /\ spell_pause_duration = MainSpellPause
    /\ \E parts \in SeqsUpTo(PairLexemes, MaxPairLexemes) :
           /\ markup_text = Concat(parts)
           /\ tokens = Tokenize(Concat(parts))
    /\ i = 1
    /\ segments = <<>>
    /\ attribute_stack = <<DefaultAttrs>>
    /\ current_text_buffer = <<>>
    /\ text_segment_created = FALSE
    /\ pc = "loop"
    /\ result = <<>>
    /\ \E parts \in SeqsUpTo(PairLexemes, MaxPairLexemes) :
           other = StartCall(Concat(parts))
    /\ args = DefaultArgs
    /\ segment = DefaultSegment
    /\ NoSynthesis

NextPair == Next \/ OtherStep \/ OtherFinish

SpecPair == InitPair /\ [][NextPair]_vars

\* what a call on text returns when it runs alone
Alone(text) ==
    parse_markup(text, emotion_presets, modifier_presets,
                 spell_pause_duration).segments

\* no step writes the preset tables or the spell pause, and a step of one
\* call leaves the state of the other call as it is
CallsShareNothing ==
    /\ UNCHANGED <<emotion_presets, modifier_presets, spell_pause_duration>>
    /\ other' # other => UNCHANGED FirstCall
    /\ FirstCall' # FirstCall => other' = other

\* C21: parses are independent under any interleaving: parse_markup never
\* writes the preset tables or any state shared between calls, so each of two
\* calls interleaved on the same processor returns what it returns when run
\* alone, a function of markup text, preset tables and spell pause.
C21_ParsesIndependent ==
    /\ [][CallsShareNothing]_vars
    /\ [](pc = "done" => result = Alone(markup_text))
    /\ [](other.pc = "done" => other.result = Alone(other.markup_text))

\* both calls are half way through their loops, each with a pushed scope
C21_Witness ==
    /\ pc = "loop"
    /\ i = 2
    /\ Len(tokens) = 2
    /\ Len(attribute_stack) = 2
    /\ other.pc = "loop"
    /\ other.i = 2
    /\ Len(other.tokens) = 2
    /\ Len(other.locals.attribute_stack) = 2
    /\ other.markup_text # markup_text

(***************************************************************************)
(* tts_generator.main: the command line is parsed, the pipeline and its    *)
(* processor are built, and the markup is parsed.                          *)
(***************************************************************************)
\* the default of the spell_pause_duration parameter of TTSPipeline.__init__
PipelineSpellPauseDefault == 0

\* TTSPipeline.__init__: the spell pause the processor is built with
TTSPipeline(spell_pause) == spell_pause

\* the call at the end of main names model_name, speaker, config_path and
\* debug, so spell_pause_duration takes its default
Main ==
    /\ pc = "main"
    /\ LET r == _load_presets(config_file)
       IN  IF r.raised
           THEN /\ pc' = "raised"
                /\ UNCHANGED <<emotion_presets, modifier_presets, spell_pause_duration>>
           ELSE /\ emotion_presets' = r.emotion
                /\ modifier_presets' = r.modifier
                /\ spell_pause_duration' = TTSPipeline(PipelineSpellPauseDefault)
                /\ pc' = "loop"
    /\ UNCHANGED <<Elsewhere, config_file, markup_text, tokens, i, segments,
                   attribute_stack, current_text_buffer, text_segment_created,
                   result>>

CliLexemes == {LexSpell, LexHappy, LexClose, LexWord, LexPause1}

CliFiles == {NoFile("unreadable"), ObjectFile(GoodEmotionPresets, GoodModifierPresets)}

InitCli ==
    /\ args \in [spell_pause_duration : 0..MaxSpellPauseOption]
    /\ config_file \in CliFiles
    /\ emotion_presets = EmptyPresets
    /\ modifier_presets = EmptyPresets
    /\ spell_pause_duration = 0
    /\ \E parts \in SeqsUpTo(CliLexemes, MaxCliLexemes) :
           /\ markup_text = Concat(parts)
           /\ tokens = Tokenize(Concat(parts))
    /\ i = 1
    /\ segments = <<>>
    /\ attribute_stack = <<DefaultAttrs>>
    /\ current_text_buffer = <<>>
    /\ text_segment_created = FALSE
    /\ pc = "main"
    /\ result = <<>>
    /\ other = IdleCall
    /\ segment = DefaultSegment
    /\ NoSynthesis

NextCli == Main \/ Next

SpecCli == InitCli /\ [][NextCli]_vars

\* C22: the value of the option --spell-pause-duration is the spell pause of
\* the processor the pipeline builds, and is the pause_before of every
\* separator segment between spelled characters of the result.
C22_OptionReachesParser ==
    /\ pc \in {"loop", "done"} => spell_pause_duration = args.spell_pause_duration
    /\ pc = "done" =>
           \A k \in 2..(Len(result) - 1) :
               result[k].text = <<>> => result[k].pause_before = args.spell_pause_duration

(***************************************************************************)
(* TTSEngine.synthesize_to_memory, called on its own.                      *)
(***************************************************************************)
\* the result is [called, text, outcome]: whether self.tts.tts was called and
\* with what text, and whether the method returned None ("none"), returned
\* audio ("audio") or let an exception out ("raised").  fails says that
\* self.tts.tts raises: the handler then formats text[:50], a name that is
\* defined nowhere, and the NameError leaves the method.
synthesize_to_memory(seg, fails) ==
    IF Strip(seg.text) = <<>>
    THEN [called |-> FALSE, text |-> <<>>, outcome |-> "none"]
    ELSE [called |-> TRUE, text |-> Strip(seg.text),
          outcome |-> IF fails THEN "raised" ELSE "audio"]

\* the variables of the parser
Parser == <<Config, i, segments, attribute_stack, current_text_buffer,
            text_segment_created, result>>

\* engine.synthesize_to_memory(segment)
SynthesizeToMemory ==
    /\ pc = "synthesize"
    /\ \E fails \in BOOLEAN :
           LET r == synthesize_to_memory(segment, fails)
           IN  /\ tts_calls' =
                      IF r.called
                      THEN Append(tts_calls, [text |-> r.text, raised |-> fails])
                      ELSE tts_calls
               /\ synthesis_result' = r.outcome
               /\ pc' = IF r.outcome = "raised" THEN "raised" ELSE "returned"
    /\ UNCHANGED <<Parser, other, args, segment, audio_segments, current_time,
                   seg_index, timings>>

EngineChars == {"A", "I", " "}

EngineSegments ==
    {[SpeechSegment(t, 0, 0, 1, 1, 1) EXCEPT !.spell = b] :
        t \in SeqsUpTo(EngineChars, MaxEngineText), b \in BOOLEAN}

InitEngine ==
    /\ emotion_presets = GoodEmotionPresets
    /\ modifier_presets = GoodModifierPresets
    /\ config_file = ObjectFile(GoodEmotionPresets, GoodModifierPresets)
    /\ spell_pause_duration = MainSpellPause
    /\ markup_text = <<>>
    /\ tokens = <<>>
    /\ i = 1
    /\ segments = <<>>
    /\ attribute_stack = <<DefaultAttrs>>
    /\ current_text_buffer = <<>>
    /\ text_segment_created = FALSE
    /\ pc = "synthesize"
    /\ result = <<>>
    /\ other = IdleCall
    /\ args = DefaultArgs
    /\ segment \in EngineSegments
    /\ NoSynthesis

NextEngine == SynthesizeToMemory

SpecEngine == InitEngine /\ [][NextEngine]_vars

\* <speak><say-as interpret-as="spell-out">
SSML_OPEN ==
    <<"<", "s", "p", "e", "a", "k", ">", "<", "s", "a", "y", "-", "a", "s",
      " ", "i", "n", "t", "e", "r", "p", "r", "e", "t", "-", "a", "s", "=",
      "\"", "s", "p", "e", "l", "l", "-", "o", "u", "t", "\"", ">">>

\* </say-as></speak>
SSML_CLOSE ==
    <<"<", "/", "s", "a", "y", "-", "a", "s", ">", "<", "/", "s", "p", "e",
      "a", "k", ">">>

\* C23: synthesize_to_memory hands a segment with spell=True to the
\* synthesizer wrapped as SSML spell-out markup and a segment with
\* spell=False as its stripped text; for a segment whose text is empty or
\* whitespace it returns None and does not call the synthesizer.
C23_SpelledSegmentAsSSML ==
    pc \in {"returned", "raised"} =>
        IF Strip(segment.text) = <<>>
        THEN tts_calls = <<>> /\ synthesis_result = "none"
        ELSE /\ Len(tts_calls) = 1
             /\ tts_calls[1].text =
                    IF segment.spell
                    THEN SSML_OPEN \o Strip(segment.text) \o SSML_CLOSE
                    ELSE Strip(segment.text)

\* the text tokens whose runs are in the buffer: the last
\* Len(current_text_buffer) non-blank text tokens before the next token
BufferedTokens ==
    LET runs == {m \in 1..(i - 1) : IsTextRun(tokens[m])}
    IN  {m \in runs :
            Cardinality({n \in runs : n >= m}) <= Len(current_text_buffer)}

\* the segments the step creates have the rate, pitch, volume and spell
\* treatment of scope
CreatedUnder(scope) ==
    /\ \A k \in NewSegments :
           /\ segments'[k].rate = scope.rate
           /\ segments'[k].pitch = scope.pitch
           /\ segments'[k].volume = scope.volume
    /\ Len(segments') - Len(segments)
           = IF scope.spell THEN 2 * Len(FlushedText) - 1 ELSE 1

\* a closing tag, a pause tag and an opening tag that pushes a scope unlike
\* the top empty the buffer; an opening tag that pushes an equal scope and a
\* text token keep what is buffered
FlushTriggers ==
    (InLoop /\ current_text_buffer # <<>> /\ pc' = "loop") =>
        IF \/ IsCloseToken(tokens[i])
           \/ IsPauseToken(tokens[i])
           \/ IsOpenToken(tokens[i]) /\ Top(attribute_stack') # Top(attribute_stack)
        THEN current_text_buffer' = <<>>
        ELSE /\ Len(current_text_buffer') >= Len(current_text_buffer)
             /\ SubSeq(current_text_buffer', 1, Len(current_text_buffer))
                    = current_text_buffer
             /\ segments' = segments

\* C24: every segment a flush creates carries the rate, pitch, volume and
\* spell treatment of the scope that was on top when each text run in it
\* was read: the buffer is flushed before a closing tag pops, before a pause
\* tag and before an opening tag pushes a scope that differs from the top,
\* while an opening tag that resolves to an equal scope does not flush.
C24_SegmentsCarryScopeOfRuns ==
    [][/\ FlushTriggers
       /\ (FlushStep /\ ~MergeCase) =>
              \A m \in BufferedTokens : CreatedUnder(Top(StackAfter(m)))]_vars

\* "Ok[rate:3]": the opening tag has flushed "Ok" at rate 1 and pushed rate 3
C24_Witness ==
    /\ AfterOpen
    /\ current_text_buffer = <<>>
    /\ Len(segments) = 1
    /\ segments[1].text = <<"O", "k">>
    /\ segments[1].rate = 1
    /\ Top(attribute_stack).rate = 3

(***************************************************************************)
(* A family of inputs with pause tags of every shape.                      *)
(***************************************************************************)
\* [pause:-1]
LexPauseMinus1 == TagOf(TxtPause \o <<"-", "1">>)
\* [pause:x]
LexPauseX == TagOf(TxtPause \o <<"x">>)
\* [pause:]
LexPauseEmpty == TagOf(TxtPause)
\* [pause:1.2.3]
LexPauseTwoPoints == TagOf(TxtPause \o <<"1", ".", "2", ".", "3">>)

PauseLexemes ==
    {LexPause1, LexPauseMinus1, LexPauseX, LexPauseEmpty, LexPauseTwoPoints,
     LexWord, LexClose, LexSpell}

InitPause ==
    /\ emotion_presets = GoodEmotionPresets
    /\ modifier_presets = GoodModifierPresets
    /\ config_file = ObjectFile(GoodEmotionPresets, GoodModifierPresets)
    /\ spell_pause_duration = MainSpellPause
    /\ \E parts \in SeqsUpTo(PauseLexemes, MaxPauseLexemes) : InitParse(Concat(parts))

SpecPause == InitPause /\ [][Next]_vars

\* the duration of the pause tag parses as a nonnegative float
ValidPause(token) == PauseDuration(token).ok /\ PauseDuration(token).val >= 0

\* the locals after the flush a tag makes first
AfterFlush ==
    FlushTextBuffer(segments, attribute_stack, current_text_buffer,
                    text_segment_created, spell_pause_duration)

\* every pause of the result is nonnegative
NoNegativePause ==
    \A k \in 1..Len(result) :
        result[k].pause_before >= 0 /\ result[k].pause_after >= 0

\* C25: a pause tag whose duration does not parse as a nonnegative float
\* (non-numeric, empty, malformed, negative) is ignored: beyond the flush it
\* changes no segment and no scope; so with a nonnegative spell pause every
\* pause_before and pause_after of the result is >= 0.
C25_InvalidPauseIgnored ==
    /\ [][(InLoop /\ IsPauseToken(tokens[i]) /\ ~ValidPause(tokens[i])) =>
             /\ segments' = AfterFlush.segments
             /\ attribute_stack' = AfterFlush.attribute_stack]_vars
    /\ []((pc = "done" /\ spell_pause_duration >= 0) => NoNegativePause)

\* the k-th segment of the result is a separator of a spelled flush
IsSeparator(k) == result[k].text = <<>> /\ 1 < k /\ k < Len(result)

\* the duration d shows in a pause field of a segment that is no separator
Reflected(d) ==
    \E k \in 1..Len(result) :
        /\ ~IsSeparator(k)
        /\ result[k].pause_before >= d \/ result[k].pause_after >= d

\* C26: no valid pause tag is dropped: once the parse has returned, the
\* duration of every valid pause tag shows in the pause_before or pause_after
\* of some segment of the result, also when the tag came inside a nested
\* scope before any text or when the next flush was a spelled one.
C26_NoPauseDropped ==
    pc = "done" =>
        \A t \in 1..Len(tokens) :
            (IsPauseToken(tokens[t]) /\ ValidPause(tokens[t])) =>
                Reflected(PauseDuration(tokens[t]).val)

\* while the loop runs a non-empty output ends in a segment with text
LastHasText ==
    (pc = "loop" /\ segments # <<>>) => segments[Len(segments)].text # <<>>

\* an empty-text segment of the result is the sole segment or lies strictly
\* inside, between two segments with text
EmptyOnlyInside ==
    pc = "done" =>
        \A k \in 1..Len(result) :
            result[k].text = <<>> =>
                \/ Len(result) = 1
                \/ /\ 1 < k
                   /\ k < Len(result)
                   /\ result[k - 1].text # <<>>
                   /\ result[k + 1].text # <<>>

\* a step creates an empty-text segment only strictly inside the segments of
\* one spelled flush, or as the only segment at the return
EmptyOnlyFromSpelling ==
    \A k \in NewSegments :
        segments'[k].text = <<>> =>
            \/ /\ FlushStep
               /\ Top(attribute_stack).spell
               /\ Len(segments) + 1 < k
               /\ k < Len(segments')
            \/ pc' = "done" /\ Len(segments') = 1

\* a pause tag adds its duration to a segment with text
PauseOnText ==
    \A k \in 1..Len(segments) :
        (k <= Len(segments') /\ segments'[k].pause_after # segments[k].pause_after) =>
            segments'[k].text # <<>>

\* C27: while the token loop runs, a non-empty output ends in a segment with
\* non-empty text; an empty-text segment occurs in a result only strictly
\* between two segments of one spelled flush or as the sole segment; so a
\* pause tag never adds to an empty-text segment and "the last segment has
\* non-empty text" says the same as "the output is non-empty".
C27_EmptyTextOnlyInside ==
    /\ []LastHasText
    /\ []EmptyOnlyInside
    /\ [][EmptyOnlyFromSpelling /\ PauseOnText]_vars

\* "[spell]Ok" has returned "Oh", a separator, "Kay"
C27_Witness ==
    /\ pc = "done"
    /\ Len(result) = 3
    /\ result[1].text # <<>>
    /\ result[2].text = <<>>
    /\ result[2].pause_before = spell_pause_duration
    /\ result[3].text # <<>>

(***************************************************************************)
(* TTSPipeline.generate_audio_and_subtitles: the markup is parsed, then    *)
(* the loop over the segments builds the audio timeline.  Times are in     *)
(* seconds, audio lengths in milliseconds.                                 *)
(***************************************************************************)
\* processed audio shorter than this many milliseconds is skipped
MIN_AUDIO_MS == 50

\* the lengths apply_effects may give, in milliseconds
AudioLengths == {20, 1000, 2000}

\* create_silence(duration)
Silence(duration) == [kind |-> "silence", duration |-> duration]

\* the processed audio of a segment
Speech(duration) == [kind |-> "speech", duration |-> duration]

\* start_time, end_time and duration of a new SpeechSegment
NoTiming == [start_time |-> 0, end_time |-> 0, duration |-> 0]

\* the statements between the parse and the loop
StartPipeline ==
    /\ pc = "done"
    /\ pc' = "pipeline"
    /\ audio_segments' = <<>>
    /\ current_time' = 0
    /\ seg_index' = 1
    /\ timings' = [k \in 1..Len(result) |-> NoTiming]
    /\ UNCHANGED <<Parser, other, args, segment, tts_calls, synthesis_result>>

\* if segment.pause_before > 0: the silence and the time before the segment
BeforeSegment(seg) ==
    IF seg.pause_before > 0
    THEN [audio |-> Append(audio_segments, Silence(seg.pause_before)),
          time  |-> current_time + seg.pause_before]
    ELSE [audio |-> audio_segments, time |-> current_time]

\* if segment.pause_after > 0: the silence and the time after the segment
PauseAfter(seg, audio, time) ==
    IF seg.pause_after > 0
    THEN [audio |-> Append(audio, Silence(seg.pause_after)),
          time  |-> time + seg.pause_after]
    ELSE [audio |-> audio, time |-> time]

\* one iteration of the loop over the segments; fails and length are what
\* the synthesizer and apply_effects do for this segment
ProcessSegment ==
    /\ pc = "pipeline"
    /\ seg_index <= Len(result)
    /\ \E fails \in BOOLEAN, length \in AudioLengths :
         LET seg    == result[seg_index]
             before == BeforeSegment(seg)
             r      == synthesize_to_memory(seg, fails)
             started == [timings EXCEPT ![seg_index].start_time = before.time]
         IN  IF Strip(seg.text) = <<>>
             THEN LET after == PauseAfter(seg, before.audio, before.time)
                  IN  /\ audio_segments' = after.audio
                      /\ current_time' = after.time
                      /\ seg_index' = seg_index + 1
                      /\ UNCHANGED <<timings, tts_calls, synthesis_result, pc>>
             ELSE /\ tts_calls' = Append(tts_calls, [text |-> r.text, raised |-> fails])
                  /\ synthesis_result' = r.outcome
                  /\ IF r.outcome = "raised"
                     THEN \* the exception leaves generate_audio_and_subtitles
                          /\ pc' = "raised"
                          /\ audio_segments' = before.audio
                          /\ current_time' = before.time
                          /\ timings' = started
                          /\ UNCHANGED seg_index
                     ELSE IF length < MIN_AUDIO_MS
                     THEN \* continue
                          /\ audio_segments' = before.audio
                          /\ current_time' = before.time
                          /\ timings' = started
                          /\ seg_index' = seg_index + 1
                          /\ UNCHANGED pc
                     ELSE LET duration == length \div 1000
                              end_time == before.time + duration
                              after == PauseAfter(seg, Append(before.audio, Speech(duration)),
                                                  end_time)
                          IN  /\ audio_segments' = after.audio
                              /\ current_time' = after.time
                              /\ timings' = [started EXCEPT
                                                ![seg_index].duration = duration,
                                                ![seg_index].end_time = end_time]
                              /\ seg_index' = seg_index + 1
                              /\ UNCHANGED pc
    /\ UNCHANGED <<Parser, other, args, segment>>

\* the statements after the loop
FinishPipeline ==
    /\ pc = "pipeline"
    /\ seg_index > Len(result)
    /\ pc' = IF audio_segments # <<>> THEN "generated" ELSE "no_audio"
    /\ UNCHANGED <<Parser, Elsewhere>>

PipeLexemes == {LexPause1, LexWord, LexClose, LexSpell}

InitPipe ==
    /\ emotion_presets = GoodEmotionPresets
    /\ modifier_presets = GoodModifierPresets
    /\ config_file = ObjectFile(GoodEmotionPresets, GoodModifierPresets)
    /\ spell_pause_duration = MainSpellPause
    /\ \E parts \in SeqsUpTo(PipeLexemes, MaxPipeLexemes) : InitParse(Concat(parts))

NextPipe == Next \/ StartPipeline \/ ProcessSegment \/ FinishPipeline

SpecPipe == InitPipe /\ [][NextPipe]_vars

(***************************************************************************)
(* The pauses of a segment on the audio timeline.                          *)
(***************************************************************************)
\* what one iteration appended to audio_segments
AddedAudio ==
    SubSeq(audio_segments', Len(audio_segments) + 1, Len(audio_segments'))

IsSilence(a) == a.kind = "silence"

IsSpeech(a) == a.kind = "speech"

\* the silences a segment's pauses call for, in order
PausesOf(seg) ==
    (IF seg.pause_before > 0 THEN <<Silence(seg.pause_before)>> ELSE <<>>)
    \o (IF seg.pause_after > 0 THEN <<Silence(seg.pause_after)>> ELSE <<>>)

\* the length of the speech one iteration appended, 0 when it appended none
AddedSpeech ==
    LET speech == SelectSeq(AddedAudio, IsSpeech)
    IN  IF speech = <<>> THEN 0 ELSE speech[1].duration

\* an iteration of the loop over the segments
Iteration == pc = "pipeline" /\ seg_index <= Len(result)

\* C28: in generate_audio_and_subtitles every iteration of the loop over
\* the segments adds a silence of the segment's pause_before before it and a
\* silence of its pause_after after it whenever the value is > 0, and
\* current_time advances by the same amounts, whether the segment's text was
\* synthesized, was empty, failed to synthesize, or was skipped because its
\* audio was too short.
C28_PausesReachTimeline ==
    [][Iteration =>
          LET seg == result[seg_index]
          IN  /\ SelectSeq(AddedAudio, IsSilence) = PausesOf(seg)
              /\ current_time' =
                    current_time + seg.pause_before + seg.pause_after + AddedSpeech]_vars

\* C29: a synthesis failure is non-fatal: when the synthesizer raises for a
\* segment, synthesize_to_memory returns None without propagating an
\* exception, and the pipeline goes on to the remaining segments.
C29_SynthesisFailureNonFatal ==
    [][(/\ Len(tts_calls') = Len(tts_calls) + 1
        /\ tts_calls'[Len(tts_calls')].raised)
       => /\ synthesis_result' = "none"
          /\ pc' # "raised"
          /\ Iteration => seg_index' = seg_index + 1]_vars

====
